---- MODULE Spec2Model ----
(***************************************************************************)
(* Document tracking store of fiscalshield-idp-core: the create-document   *)
(* resolver (two put_item calls after a best-effort lookup and stale list  *)
(* entry deletion), the DocumentDynamoDBService operations create / update *)
(* / get, and the key scheme they share.                                   *)
(*                                                                         *)
(* Strings are sequences of tokens; an f-string is the concatenation of    *)
(* its literal tokens and its arguments.                                   *)
(***************************************************************************)
EXTENDS Integers, Sequences, FiniteSets, TLC

\* ------------------------------------------------------------------ bounds
MaxCalls == 3
MaxFailures == 1

\* ------------------------------------------------------------ basic values
\* an absent string / an absent item, dict or result
None == <<"~none">>
Absent == [absent |-> TRUE]

Procs == {1, 2, 3}

U1 == <<"u1">>
U2 == <<"u2">>
Users == {U1, U2}

K1 == <<"a.pdf">>
ObjectKeys == {K1}

T1 == <<"2025-01-15", "T", "10", ":30:00Z">>
T2 == <<"2025-01-16", "T", "08", ":00:00Z">>
QueuedTimes == {T1, T2}

Statuses == {<<"QUEUED">>, <<"COMPLETED">>}

\* Python truthiness of an optional string
Falsy(x) == x = None \/ x = <<>>

\* a value that is not a string (a number, say), and isinstance(x, str)
NotAString == <<"~int">>
IsStr(x) == x # None /\ x # NotAString

\* a raised ValueError, with its message
ValueError(msg) == <<"~ValueError", msg>>
IsError(x) == Len(x) = 2 /\ x[1] = "~ValueError"

\* ------------------------------------------------------------- key scheme
UserScopedPK_legacy(user_id, object_key) == <<"doc", "#">> \o object_key

UserScopedPK(user_id, object_key) ==
    <<"user", "#">> \o user_id \o <<"#", "doc", "#">> \o object_key

LegacyPK(object_key) == <<"doc", "#">> \o object_key

doc_sk == <<"none">>

doc_key(object_key, user_id) ==
    IF Falsy(user_id) THEN <<LegacyPK(object_key), doc_sk>>
    ELSE <<UserScopedPK(user_id, object_key), doc_sk>>

\* hour token -> hour of day
HourTokens == {"00", "02", "08", "10", "13", "23"}
HourVal(h) ==
    CASE h = "00" -> 0 [] h = "02" -> 2 [] h = "08" -> 8
      [] h = "10" -> 10 [] h = "13" -> 13 [] h = "23" -> 23

HoursPerShard == 4

WellFormedTime(t) == Len(t) >= 3 /\ t[2] = "T" /\ t[3] \in HourTokens

\* (date, shard); shard is the zero-padded two-digit bucket of the hour
calculate_shard(t) ==
    <<t[1], <<"0", ToString(HourVal(t[3]) \div HoursPerShard)>> >>

list_pk_unsharded(queued_time) == <<"list", "#", calculate_shard(queued_time)[1]>>

list_pk(queued_time) ==
    <<"list", "#", calculate_shard(queued_time)[1], "#", "s", "#">>
        \o calculate_shard(queued_time)[2]

list_sk(queued_time, object_key) ==
    <<"ts", "#">> \o queued_time \o <<"#", "id", "#">> \o object_key

list_key(queued_time, object_key) ==
    <<list_pk(queued_time), list_sk(queued_time, object_key)>>

\* ------------------------------------------------------------ the table
\* An item of the tracking table; an attribute that is absent holds None.
Item(pk, sk, object_key, queued_time, user_id, expires_after, status) ==
    [PK |-> pk, SK |-> sk, ObjectKey |-> object_key, QueuedTime |-> queued_time,
     UserId |-> user_id, ExpiresAfter |-> expires_after, ObjectStatus |-> status]

KeyOf(item) == <<item.PK, item.SK>>

get_item(tbl, key) == IF key \in DOMAIN tbl THEN tbl[key] ELSE Absent

put_item_if_absent(tbl, item) ==
    IF KeyOf(item) \in DOMAIN tbl THEN tbl
    ELSE [k \in DOMAIN tbl \cup {KeyOf(item)} |-> IF k = KeyOf(item) THEN item ELSE tbl[k]]

\* put_item overwrites whatever the key holds
put_item(tbl, item) ==
    [k \in DOMAIN tbl \cup {KeyOf(item)} |-> IF k = KeyOf(item) THEN item ELSE tbl[k]]

delete_item(tbl, key) == [k \in DOMAIN tbl \ {key} |-> tbl[k]]

\* all-or-nothing application of two puts
transact_write(tbl, item1, item2) == put_item(put_item(tbl, item1), item2)

\* SET of the mutable attribute on an existing item; key attributes stay
update_item(tbl, key, status) ==
    [tbl EXCEPT ![key] = [@ EXCEPT !.ObjectStatus = status]]

IsDocKey(key) == key[2] = doc_sk
IsListKey(key) == Len(key[1]) > 0 /\ key[1][1] = "list"

\* ------------------------------------------------- robust list deletion
\* the list key is recomputed from the QueuedTime stored on the old record
robust_list_key(object_key, existing_doc) ==
    list_key(existing_doc.QueuedTime, object_key)

\* ------------------------------------------ create-document resolver
\* AppSync event: identity context and arguments.input
Event(sub, username, input) ==
    [identity |-> [sub |-> sub, username |-> username], input |-> input]

Input(user_id, object_key, queued_time, pk, sk) ==
    [UserId |-> user_id, ObjectKey |-> object_key, QueuedTime |-> queued_time,
     ExpiresAfter |-> None, ObjectStatus |-> <<"QUEUED">>, PK |-> pk, SK |-> sk]

\* event.get('identity', {}): a missing identity is an empty one
IdentityOf(event) ==
    IF event.identity = Absent THEN [sub |-> None, username |-> None]
    ELSE event.identity

extract_user_id_username_first(event) ==
    IF ~Falsy(IdentityOf(event).username) THEN IdentityOf(event).username
    ELSE IF ~Falsy(IdentityOf(event).sub) THEN IdentityOf(event).sub
    ELSE ValueError("User not authenticated - missing user ID")

\* sub first, then username, else the ValueError
extract_user_id(event) ==
    IF ~Falsy(IdentityOf(event).sub) THEN IdentityOf(event).sub
    ELSE IF ~Falsy(IdentityOf(event).username) THEN IdentityOf(event).username
    ELSE ValueError("User not authenticated - missing user ID")

HandlerUserId_identity(event) == extract_user_id(event)

\* the user ID the handler works with: the input's UserId wins over identity
HandlerUserId(event) ==
    IF event.input # Absent /\ ~Falsy(event.input.UserId) THEN event.input.UserId
    ELSE extract_user_id(event)

Validation_lax(event) ==
    IF IsError(HandlerUserId(event)) THEN HandlerUserId(event)[2]
    ELSE IF event.input = Absent THEN "Input data is required"
    ELSE IF Falsy(event.input.ObjectKey) THEN "ObjectKey must be a non-empty string"
    ELSE IF Falsy(event.input.QueuedTime) THEN "QueuedTime must be a non-empty string"
    ELSE ""

Validation_input_first(event) ==
    IF event.input = Absent THEN "Input data is required"
    ELSE IF IsError(HandlerUserId(event)) THEN HandlerUserId(event)[2]
    ELSE IF Falsy(event.input.ObjectKey) \/ ~IsStr(event.input.ObjectKey)
    THEN "ObjectKey must be a non-empty string"
    ELSE IF Falsy(event.input.QueuedTime) \/ ~IsStr(event.input.QueuedTime)
    THEN "QueuedTime must be a non-empty string"
    ELSE ""

\* the handler's checks, in its order: the message of the ValueError raised,
\* "" when the request passes; an empty input dict is Absent
Validation(event) ==
    IF IsError(HandlerUserId(event)) THEN HandlerUserId(event)[2]
    ELSE IF event.input = Absent THEN "Input data is required"
    ELSE IF Falsy(event.input.ObjectKey) \/ ~IsStr(event.input.ObjectKey)
    THEN "ObjectKey must be a non-empty string"
    ELSE IF Falsy(event.input.QueuedTime) \/ ~IsStr(event.input.QueuedTime)
    THEN "QueuedTime must be a non-empty string"
    ELSE ""

\* {'PK': doc_pk, 'SK': doc_sk, **input_data, 'UserId': user_id}
DocItem(input, user_id) ==
    Item(IF input.PK # None THEN input.PK ELSE UserScopedPK(user_id, input.ObjectKey),
         IF input.SK # None THEN input.SK ELSE doc_sk,
         input.ObjectKey, input.QueuedTime, user_id,
         input.ExpiresAfter, input.ObjectStatus)

ListItem_unsharded(input, user_id) ==
    Item(<<"list", "#", calculate_shard(input.QueuedTime)[1]>>,
         list_sk(input.QueuedTime, input.ObjectKey),
         input.ObjectKey, input.QueuedTime, user_id, input.ExpiresAfter, None)

ListItem(input, user_id) ==
    Item(list_pk(input.QueuedTime), list_sk(input.QueuedTime, input.ObjectKey),
         input.ObjectKey, input.QueuedTime, user_id, input.ExpiresAfter, None)

\* ------------------------------------------------------------------ state
VARIABLES
    table,      \* the tracking table: key <<PK, SK>> -> item
    proc,       \* per invocation slot of the create resolver: its locals
    svc,        \* the call the last step made, if it made one, and its outcome
    slots,      \* the invocation slots in use: how many resolvers run at once
    shadow,     \* identity <<user_id, object_key>> -> what its record should hold
    calls,      \* calls started so far
    failures    \* store failures injected so far

vars == <<table, proc, slots, svc, shadow, calls, failures>>

Idle ==
    [pc |-> "idle", input |-> Absent, user_id |-> None, existing_doc |-> Absent,
     ops |-> <<>>, err |-> "", result |-> Absent, alone |-> TRUE, pre |-> <<>>,
     began |-> 0, among |-> {}, last |-> FALSE]

NoCall == [op |-> "none"]

\* requests the resolver is sent: identity of a signed-in user, and an input
\* that may name the user itself (the queue consumer does)
Events ==
    { Event(u, None, Input(x, k, t, None, None)) :
        u \in Users, x \in {None} \cup Users, k \in ObjectKeys, t \in QueuedTimes }

Init ==
    /\ slots = {1}
    /\ table = <<>>
    /\ proc = [p \in Procs |-> Idle]
    /\ svc = NoCall
    /\ shadow = <<>>
    /\ calls = 0
    /\ failures = 0

\* every invocation in flight other than p has now seen another one act
Disturb(pr, p) ==
    [q \in Procs |-> IF q # p /\ pr[q].pc # "idle" THEN [pr[q] EXCEPT !.alone = FALSE]
                     ELSE pr[q]]

Record(sh, user_id, object_key, queued_time, status) ==
    [i \in DOMAIN sh \cup {<<user_id, object_key>>} |->
        IF i = <<user_id, object_key>>
        THEN [QueuedTime |-> queued_time, ObjectStatus |-> status]
        ELSE sh[i]]

\* handler, up to the table lookup: user ID and input validation
Begin(p, event) ==
    /\ p \in slots
    /\ proc[p].pc = "idle"
    /\ calls < MaxCalls
    /\ calls' = calls + 1
    /\ LET user_id == IF IsError(HandlerUserId(event)) THEN None ELSE HandlerUserId(event)
           start == [Idle EXCEPT !.input = event.input, !.user_id = user_id,
                                 !.pre = table, !.began = calls + 1,
                                 !.among = {q \in Procs : proc[q].pc # "idle"},
                                 !.alone = \A q \in Procs : proc[q].pc = "idle"]
       IN  proc' = Disturb(
             [proc EXCEPT ![p] =
                IF Validation(event) # ""
                THEN [start EXCEPT !.pc = "failed", !.err = Validation(event)]
                ELSE [start EXCEPT !.pc = "get"]], p)
    /\ svc' = [op |-> "handler", slot |-> p, event |-> event]
    /\ UNCHANGED <<table, slots, shadow, failures>>

AfterLookup_skip(existing_doc) == "put_doc"

\* `if existing_doc:` the old list entry is deleted before the new writes
AfterLookup(existing_doc) == IF existing_doc # Absent THEN "delete" ELSE "put_doc"

OnLookupError_raise(existing_doc) == "failed"

\* except around get_item: log, continue with whatever existing_doc holds
OnLookupError(existing_doc) == AfterLookup(existing_doc)

\* tracking_table.get_item of the existing record
GetItem(p) ==
    /\ proc[p].pc = "get"
    /\ LET found == get_item(table,
                      <<UserScopedPK(proc[p].user_id, proc[p].input.ObjectKey), doc_sk>>)
       IN  proc' = Disturb(
             [proc EXCEPT ![p].existing_doc = found,
                          ![p].ops = Append(@, "get_item"),
                          ![p].pc = AfterLookup(found)], p)
    /\ svc' = NoCall
    /\ UNCHANGED <<table, slots, shadow, calls, failures>>

\* ... which raises: logged, existing_doc stays None
GetItemFails(p) ==
    /\ proc[p].pc = "get"
    /\ failures < MaxFailures
    /\ failures' = failures + 1
    /\ proc' = Disturb([proc EXCEPT ![p].ops = Append(@, "get_item!"),
                                    ![p].pc = OnLookupError(proc[p].existing_doc)], p)
    /\ svc' = NoCall
    /\ UNCHANGED <<table, slots, shadow, calls>>

OnDeletionError_raise == "failed"

\* except around delete_list_entries_robust: log, continue with creation
OnDeletionError == "put_doc"

AfterDeletion_strict(deletion_success) == IF deletion_success THEN "put_doc" ELSE "failed"

\* `if deletion_success: ... else: ...` both branches only log
AfterDeletion(deletion_success) == "put_doc"

\* delete_list_entries_robust deletes the old entry (True), or finds none
\* (False)
DeleteListEntries(p) ==
    /\ proc[p].pc = "delete"
    /\ LET key == robust_list_key(proc[p].input.ObjectKey, proc[p].existing_doc)
       IN  IF ~WellFormedTime(proc[p].existing_doc.QueuedTime)
           THEN /\ table' = table
                /\ proc' = Disturb([proc EXCEPT ![p].ops = Append(@, "delete!"),
                                                ![p].pc = OnDeletionError], p)
           ELSE IF key \in DOMAIN table
           THEN /\ table' = delete_item(table, key)
                /\ proc' = Disturb([proc EXCEPT ![p].ops = Append(@, "delete"),
                                                ![p].pc = AfterDeletion(TRUE)], p)
           ELSE /\ table' = table
                /\ proc' = Disturb([proc EXCEPT ![p].ops = Append(@, "delete_none"),
                                                ![p].pc = AfterDeletion(FALSE)], p)
    /\ svc' = NoCall
    /\ UNCHANGED <<slots, shadow, calls, failures>>

\* ... or raises a store error: logged, creation goes on
DeleteListEntriesFails(p) ==
    /\ proc[p].pc = "delete"
    /\ failures < MaxFailures
    /\ failures' = failures + 1
    /\ proc' = Disturb([proc EXCEPT ![p].ops = Append(@, "delete!"),
                                    ![p].pc = OnDeletionError], p)
    /\ svc' = NoCall
    /\ UNCHANGED <<table, slots, shadow, calls>>

\* calculate_shard of the new QueuedTime, then put_item of the document record
PutDoc(p) ==
    /\ proc[p].pc = "put_doc"
    /\ IF ~WellFormedTime(proc[p].input.QueuedTime)
       THEN /\ proc' = Disturb([proc EXCEPT ![p].pc = "failed",
                                            ![p].err = "MalformedTimestamp"], p)
            /\ UNCHANGED <<table, shadow>>
       ELSE LET item == DocItem(proc[p].input, proc[p].user_id)
            IN  /\ table' = put_item(table, item)
                /\ shadow' = Record(shadow, item.UserId, item.ObjectKey,
                                    item.QueuedTime, item.ObjectStatus)
                /\ proc' = Disturb(
                      [q \in Procs |->
                         IF q = p
                         THEN [proc[p] EXCEPT !.ops = Append(@, "put_doc"),
                                              !.pc = "put_list", !.last = TRUE]
                         ELSE IF proc[q].last /\ KeyOf(DocItem(proc[q].input, proc[q].user_id))
                                                   = KeyOf(item)
                         THEN [proc[q] EXCEPT !.last = FALSE]
                         ELSE proc[q]], p)
    /\ svc' = NoCall
    /\ UNCHANGED <<slots, calls, failures>>

PutDocFails(p) ==
    /\ proc[p].pc = "put_doc"
    /\ WellFormedTime(proc[p].input.QueuedTime)
    /\ failures < MaxFailures
    /\ failures' = failures + 1
    /\ proc' = Disturb([proc EXCEPT ![p].ops = Append(@, "put_doc!"),
                                    ![p].pc = "failed", ![p].err = "StoreError"], p)
    /\ svc' = NoCall
    /\ UNCHANGED <<table, slots, shadow, calls>>

\* put_item of the list item, then the return value
PutList(p) ==
    /\ proc[p].pc = "put_list"
    /\ table' = put_item(table, ListItem(proc[p].input, proc[p].user_id))
    /\ proc' = Disturb([proc EXCEPT ![p].ops = Append(@, "put_list"),
                                    ![p].pc = "done",
                                    ![p].result = [ObjectKey |-> proc[p].input.ObjectKey,
                                                   UserId |-> proc[p].user_id]], p)
    /\ svc' = NoCall
    /\ UNCHANGED <<slots, shadow, calls, failures>>

PutListFails(p) ==
    /\ proc[p].pc = "put_list"
    /\ failures < MaxFailures
    /\ failures' = failures + 1
    /\ proc' = Disturb([proc EXCEPT ![p].ops = Append(@, "put_list!"),
                                    ![p].pc = "failed", ![p].err = "StoreError"], p)
    /\ svc' = NoCall
    /\ UNCHANGED <<table, slots, shadow, calls>>

\* the invocation is over; its slot is free again
Return(p) ==
    /\ proc[p].pc \in {"done", "failed"}
    /\ proc' = [proc EXCEPT ![p] = Idle]
    /\ svc' = NoCall
    /\ UNCHANGED <<table, slots, shadow, calls, failures>>

\* ------------------------------------------- DocumentDynamoDBService
\* a writing service call is scheduled between resolver invocations
Quiet == \A q \in Procs : proc[q].pc = "idle"

Document(input_key, user_id, queued_time, status) ==
    [input_key |-> input_key, user_id |-> user_id, queued_time |-> queued_time,
     status |-> status]

Documents ==
    { Document(k, u, t, <<"QUEUED">>) :
        k \in ObjectKeys, u \in {None} \cup Users, t \in QueuedTimes }

SvcDocItem(doc) ==
    Item(doc_key(doc.input_key, doc.user_id)[1], doc_key(doc.input_key, doc.user_id)[2],
         doc.input_key, doc.queued_time, doc.user_id, None, doc.status)

SvcListItem(doc) ==
    Item(list_pk(doc.queued_time), list_sk(doc.queued_time, doc.input_key),
         doc.input_key, doc.queued_time, doc.user_id, None, None)

\* the table once the stale entry of an existing record is removed
SvcCleaned(tbl, doc, fault) ==
    LET existing == IF fault = "lookup" THEN Absent
                    ELSE get_item(tbl, doc_key(doc.input_key, doc.user_id))
    IN  IF existing = Absent \/ fault = "delete" THEN tbl
        ELSE IF robust_list_key(doc.input_key, existing) \in DOMAIN tbl
        THEN delete_item(tbl, robust_list_key(doc.input_key, existing))
        ELSE tbl

\* create_document: best-effort lookup and cleanup, then the transaction;
\* `fault` is the store call that raises, if one does
SvcCreate(doc, fault) ==
    /\ Quiet
    /\ calls < MaxCalls
    /\ calls' = calls + 1
    /\ fault # "none" => failures < MaxFailures
    /\ failures' = IF fault = "none" THEN failures ELSE failures + 1
    /\ IF fault = "transact"
       THEN /\ table' = SvcCleaned(table, doc, fault)
            /\ shadow' = shadow
            /\ svc' = [op |-> "create", object_key |-> doc.input_key,
                       user_id |-> doc.user_id, result |-> [error |-> "StoreTransactionFailed"]]
       ELSE /\ table' = transact_write(SvcCleaned(table, doc, fault),
                                       SvcDocItem(doc), SvcListItem(doc))
            /\ shadow' = Record(shadow, doc.user_id, doc.input_key,
                                doc.queued_time, doc.status)
            /\ svc' = [op |-> "create", object_key |-> doc.input_key,
                       user_id |-> doc.user_id, result |-> [ObjectKey |-> doc.input_key]]
    /\ proc' = Disturb(proc, 0)
    /\ UNCHANGED slots

update_key_legacy(doc) == <<LegacyPK(doc.input_key), doc_sk>>

\* the key update_document addresses
update_key(doc) == doc_key(doc.input_key, doc.user_id)

update_touching_list(tbl, doc) ==
    [k \in DOMAIN tbl |->
        IF k = update_key(doc) \/ (IsListKey(k) /\ tbl[k].ObjectKey = doc.input_key)
        THEN [tbl[k] EXCEPT !.ObjectStatus = doc.status] ELSE tbl[k]]

\* the table after update_document's conditional update_item
update_applied(tbl, doc) == update_item(tbl, update_key(doc), doc.status)

update_absent_upsert(tbl, doc) == put_item(tbl, SvcDocItem(doc))

\* ... whose condition fails on an absent key: nothing is written
update_absent(tbl, doc) == tbl

\* update_document: one conditional update at the document's own key
SvcUpdate(doc) ==
    /\ Quiet
    /\ calls < MaxCalls
    /\ calls' = calls + 1
    /\ IF update_key(doc) \in DOMAIN table
       THEN /\ table' = update_applied(table, doc)
            /\ shadow' = IF <<doc.user_id, doc.input_key>> \in DOMAIN shadow
                         THEN [shadow EXCEPT ![<<doc.user_id, doc.input_key>>].ObjectStatus
                                                = doc.status]
                         ELSE shadow
            /\ svc' = [op |-> "update", object_key |-> doc.input_key,
                       user_id |-> doc.user_id, result |-> table'[update_key(doc)]]
       ELSE /\ table' = update_absent(table, doc)
            /\ shadow' = shadow
            /\ svc' = [op |-> "update", object_key |-> doc.input_key,
                       user_id |-> doc.user_id, result |-> [error |-> "DocumentNotFound"]]
    /\ proc' = Disturb(proc, 0)
    /\ UNCHANGED <<slots, failures>>

get_key_legacy(object_key, user_id) == <<LegacyPK(object_key), doc_sk>>

\* the key get_document looks up: no fallback to the other scheme
get_key(object_key, user_id) == doc_key(object_key, user_id)

\* get_document: a direct lookup, None when absent
SvcGet(object_key, user_id) ==
    /\ svc' = [op |-> "get", object_key |-> object_key, user_id |-> user_id,
               result |-> get_item(table, get_key(object_key, user_id))]
    /\ UNCHANGED <<table, proc, slots, shadow, calls, failures>>

\* ------------------------------------------------------ upload resolver
upload_extract_user_id_sub_first(event) ==
    IF ~Falsy(IdentityOf(event).sub) THEN IdentityOf(event).sub
    ELSE IF ~Falsy(IdentityOf(event).username) THEN IdentityOf(event).username
    ELSE ValueError("User not authenticated - missing user ID")

\* the upload resolver's own extract_user_id: username first, then sub
upload_extract_user_id(event) ==
    IF ~Falsy(IdentityOf(event).username) THEN IdentityOf(event).username
    ELSE IF ~Falsy(IdentityOf(event).sub) THEN IdentityOf(event).sub
    ELSE ValueError("User not authenticated - missing user ID")

\* file_name.replace(' ', '_'); a space is a token of its own
sanitize(file_name) ==
    [i \in 1..Len(file_name) |-> IF file_name[i] = " " THEN "_" ELSE file_name[i]]

upload_object_key_unscoped(user_id, user_prefix, file_name) ==
    IF ~Falsy(user_prefix) THEN user_prefix \o <<"/">> \o sanitize(file_name)
    ELSE sanitize(file_name)

\* users/<user_id>/[optional-subdir/]filename
upload_object_key(user_id, user_prefix, file_name) ==
    IF ~Falsy(user_prefix)
    THEN <<"users", "/">> \o user_id \o <<"/">> \o user_prefix
            \o <<"/">> \o sanitize(file_name)
    ELSE <<"users", "/">> \o user_id \o <<"/">> \o sanitize(file_name)

\* what the upload handler returns or raises; input_bucket is the INPUT_BUCKET
\* environment variable, s3_ok whether generate_presigned_post returns
upload_handler(event, input_bucket, s3_ok) ==
    LET user_id == upload_extract_user_id(event)
        arguments == event.arguments
        bucket_name == IF ~Falsy(arguments.bucket) THEN arguments.bucket ELSE input_bucket
        object_key == upload_object_key(user_id, arguments.prefix, arguments.fileName)
    IN  IF IsError(user_id) THEN [error |-> user_id[2]]
        ELSE IF Falsy(arguments.fileName) THEN [error |-> "fileName is required"]
        ELSE IF Falsy(bucket_name)
        THEN [error |-> "bucket parameter is required when INPUT_BUCKET is not configured"]
        ELSE IF ~s3_ok THEN [error |-> "ClientError"]
        ELSE [presigned |-> [Bucket |-> bucket_name, Key |-> object_key],
              objectKey |-> object_key, usePostMethod |-> TRUE, userId |-> user_id]

\* --------------------------------------------------------- queue sender
\* object_key.split('/'): '/' is a token of its own; the parts between
RECURSIVE split_at(_, _, _)
split_at(s, i, cur) ==
    IF i > Len(s) THEN <<cur>>
    ELSE IF s[i] = "/" THEN <<cur>> \o split_at(s, i + 1, <<>>)
    ELSE split_at(s, i + 1, Append(cur, s[i]))

split(s) == split_at(s, 1, <<>>)

\* object_key.startswith('users/')
startswith_users(object_key) ==
    Len(object_key) >= 2 /\ object_key[1] = "users" /\ object_key[2] = "/"

extract_user_id_from_path_last_dir(object_key) ==
    IF ~startswith_users(object_key) THEN ValueError("Invalid path format")
    ELSE IF Len(split(object_key)) < 3 THEN ValueError("Invalid path structure")
    ELSE IF split(object_key)[Len(split(object_key)) - 1] = <<>>
    THEN ValueError("User ID is empty in path")
    ELSE split(object_key)[Len(split(object_key)) - 1]

\* the user ID is parts[1] of users/<user_id>/...
extract_user_id_from_path(object_key) ==
    IF ~startswith_users(object_key) THEN ValueError("Invalid path format")
    ELSE IF Len(split(object_key)) < 3 THEN ValueError("Invalid path structure")
    ELSE IF split(object_key)[2] = <<>> THEN ValueError("User ID is empty in path")
    ELSE split(object_key)[2]

\* the SQS message of a document: its attributes and, of the body, the
\* document's user and key
Message(user_id, object_key, event_time) ==
    [UserId |-> user_id, ObjectKey |-> object_key,
     body |-> [user_id |-> user_id, input_key |-> object_key, queued_time |-> event_time]]

queue_sender_handler_lenient(event, send_ok) ==
    IF Falsy(event.bucket) \/ Falsy(event.key)
    THEN [attempts |-> 0, sent |-> <<>>, error |-> "Missing bucket name or object key in event"]
    ELSE IF ~send_ok
    THEN [attempts |-> 1, sent |-> <<>>, error |-> "ClientError"]
    ELSE [attempts |-> 1, error |-> "",
          sent |-> <<Message(IF IsError(extract_user_id_from_path(event.key)) THEN None
                             ELSE extract_user_id_from_path(event.key),
                             event.key, event.last_modified)>>]

\* what the queue sender's handler sends and raises; send_ok is whether
\* sqs.send_message returns
queue_sender_handler(event, send_ok) ==
    IF Falsy(event.bucket) \/ Falsy(event.key)
    THEN [attempts |-> 0, sent |-> <<>>, error |-> "Missing bucket name or object key in event"]
    ELSE IF IsError(extract_user_id_from_path(event.key))
    THEN [attempts |-> 0, sent |-> <<>>, error |-> extract_user_id_from_path(event.key)[2]]
    ELSE IF ~send_ok
    THEN [attempts |-> 1, sent |-> <<>>, error |-> "ClientError"]
    ELSE [attempts |-> 1, error |-> "",
          sent |-> <<Message(extract_user_id_from_path(event.key), event.key,
                             event.last_modified)>>]

\* ---------------------------------------- the resolvers' functions, called
\* identity contexts: missing, or sub and username each missing, empty or set
CallIdentities ==
    {Absent} \cup
    {[sub |-> a, username |-> b] :
        a \in {None, <<>>, U1, U2}, b \in {None, <<>>, U2, <<"josian">>}}

FileNames ==
    {None, <<>>, <<"invoice-2025.pdf">>, <<"My", " ", "Invoice", " ", "2025.pdf">>}
Prefixes == {None, <<>>, <<"invoices", "/", "2025">>}
Buckets == {None, <<"test-input-bucket">>}
InputBuckets == {None, <<"fallback-bucket">>}

UploadEvents ==
    { [identity |-> i, arguments |-> [fileName |-> f, prefix |-> x, bucket |-> b]] :
        i \in {Absent, [sub |-> U1, username |-> None], [sub |-> None, username |-> U2],
                [sub |-> U1, username |-> <<"josian">>]},
        f \in FileNames, x \in Prefixes, b \in Buckets }

\* object keys of S3 events: under users/ or not, short, nested, empty user
PathKeys ==
    { <<>>, <<"users">>, <<"users", "/">>, <<"users", "/", "u1">>,
      <<"documents", "/", "test-document.pdf">>,
      <<"users", "/", "/", "document.pdf">>,
      <<"users", "/", "u1", "/">>,
      <<"users", "/", "u1", "/", "test-document.pdf">>,
      <<"users", "/", "u2", "/", "folder", "/", "subfolder", "/", "document.pdf">>,
      <<"users", "/", "admin", "-", "user", "/", "my", " ", "document.pdf">> }

S3Events ==
    { [bucket |-> b, key |-> k, last_modified |-> t] :
        b \in Buckets, k \in {None} \cup PathKeys, t \in {T1} }

\* the queue sender's extract_user_id_from_path, called on an object key
ExtractUserIdFromPath(object_key) ==
    /\ svc' = [op |-> "extract_user_id_from_path", object_key |-> object_key,
               result |-> extract_user_id_from_path(object_key)]
    /\ UNCHANGED <<table, proc, slots, shadow, calls, failures>>

\* the queue sender's handler, called on an S3 event
QueueSender(event, send_ok) ==
    /\ svc' = [op |-> "queue_sender", event |-> event, send_ok |-> send_ok,
               result |-> queue_sender_handler(event, send_ok)]
    /\ UNCHANGED <<table, proc, slots, shadow, calls, failures>>

\* identities spelled with '#' and the text '#doc#' in them; no user is None
HashUsers == {None, U1, U2, <<"u1", "#", "doc", "#", "b">>, <<"u1", "#">>}
HashKeys == {K1, <<"b", "#", "doc", "#", "a.pdf">>, <<"#", "a.pdf">>, <<"doc", "#", "a.pdf">>}
HashIdentities == {<<u, k>> : u \in HashUsers, k \in HashKeys}

\* the Document Record keys of two identities <<user_id, object_key>>
DocKeyPair(a, b) ==
    /\ svc' = [op |-> "doc_key", a |-> a, b |-> b,
               key_a |-> doc_key(a[2], a[1]), key_b |-> doc_key(b[2], b[1])]
    /\ UNCHANGED <<table, proc, slots, shadow, calls, failures>>

\* usernames the user pool may hold: a UUID, a friendly name, one with a '/'
Usernames == {U1, <<"josian">>, <<"team", "/", "josian">>}

\* an upload, then the queue sender's reading of the uploaded object's key
UploadThenExtract(event) ==
    /\ svc' = LET up == upload_handler(event, None, TRUE)
              IN  [op |-> "round_trip", event |-> event, upload |-> up,
                   result |-> IF "error" \in DOMAIN up THEN None
                              ELSE extract_user_id_from_path(up.objectKey)]
    /\ UNCHANGED <<table, proc, slots, shadow, calls, failures>>

\* one identity context, read by the upload resolver and by the create
\* resolver: the user ID of the upload path and of the Document Record key
BothExtract(identity) ==
    /\ svc' = [op |-> "both_extract", event |-> [identity |-> identity],
               upload |-> upload_extract_user_id([identity |-> identity]),
               create |-> extract_user_id([identity |-> identity])]
    /\ UNCHANGED <<table, proc, slots, shadow, calls, failures>>

\* the create resolver's extract_user_id, called on an identity
ExtractUserId(identity) ==
    /\ svc' = [op |-> "extract_user_id", event |-> [identity |-> identity],
               result |-> extract_user_id([identity |-> identity])]
    /\ UNCHANGED <<table, proc, slots, shadow, calls, failures>>

\* the upload resolver's extract_user_id, called on an identity
UploadExtractUserId(identity) ==
    /\ svc' = [op |-> "upload_extract_user_id", event |-> [identity |-> identity],
               result |-> upload_extract_user_id([identity |-> identity])]
    /\ UNCHANGED <<table, proc, slots, shadow, calls, failures>>

\* the upload resolver's handler
UploadHandler(event, input_bucket, s3_ok) ==
    /\ svc' = [op |-> "upload", event |-> event, input_bucket |-> input_bucket,
               result |-> upload_handler(event, input_bucket, s3_ok)]
    /\ UNCHANGED <<table, proc, slots, shadow, calls, failures>>

NextCalls ==
    \/ \E i \in CallIdentities : ExtractUserId(i)
    \/ \E i \in CallIdentities : UploadExtractUserId(i)
    \/ \E e \in UploadEvents, b \in InputBuckets, ok \in BOOLEAN : UploadHandler(e, b, ok)
    \/ \E k \in PathKeys : ExtractUserIdFromPath(k)
    \/ \E a \in HashIdentities, b \in HashIdentities : DocKeyPair(a, b)
    \/ \E i \in CallIdentities : BothExtract(i)
    \/ \E u \in Usernames, f \in FileNames, x \in Prefixes :
          UploadThenExtract([identity |-> [sub |-> None, username |-> u],
                             arguments |-> [fileName |-> f, prefix |-> x,
                                            bucket |-> <<"test-input-bucket">>]])
    \/ \E e \in S3Events, ok \in BOOLEAN : QueueSender(e, ok)

SpecCalls == Init /\ [][NextCalls]_vars

\* ---------------------------------------------------------- specification
Next ==
    \/ \E p \in Procs, e \in Events : Begin(p, e)
    \/ \E p \in Procs : GetItem(p)
    \/ \E p \in Procs : GetItemFails(p)
    \/ \E p \in Procs : DeleteListEntries(p)
    \/ \E p \in Procs : DeleteListEntriesFails(p)
    \/ \E p \in Procs : PutDoc(p)
    \/ \E p \in Procs : PutDocFails(p)
    \/ \E p \in Procs : PutList(p)
    \/ \E p \in Procs : PutListFails(p)
    \/ \E p \in Procs : Return(p)
    \/ \E d \in Documents, f \in {"none", "lookup", "delete", "transact"} : SvcCreate(d, f)
    \/ \E d \in Documents, st \in Statuses : SvcUpdate([d EXCEPT !.status = st])
    \/ \E k \in ObjectKeys, u \in {None} \cup Users : SvcGet(k, u)

Spec == Init /\ [][Next]_vars

\* --------------------------------- two resolver invocations at once
\* creates of one identity, at either queued time
RaceEvents ==
    { Event(U1, None, Input(None, K1, t, None, None)) : t \in QueuedTimes }

InitRace ==
    /\ slots = {1, 2}
    /\ table = <<>>
    /\ proc = [p \in Procs |-> Idle]
    /\ svc = NoCall
    /\ shadow = <<>>
    /\ calls = 0
    /\ failures = 0

NextRace ==
    \/ \E p \in Procs, e \in RaceEvents : Begin(p, e)
    \/ \E p \in Procs : GetItem(p)
    \/ \E p \in Procs : GetItemFails(p)
    \/ \E p \in Procs : DeleteListEntries(p)
    \/ \E p \in Procs : DeleteListEntriesFails(p)
    \/ \E p \in Procs : PutDoc(p)
    \/ \E p \in Procs : PutDocFails(p)
    \/ \E p \in Procs : PutList(p)
    \/ \E p \in Procs : PutListFails(p)
    \/ \E p \in Procs : Return(p)

SpecRace == InitRace /\ [][NextRace]_vars

\* ------------------------- three resolver invocations at once, no failure;
\* each slot runs one invocation
InitCrowd ==
    /\ slots = Procs
    /\ table = <<>>
    /\ proc = [p \in Procs |-> Idle]
    /\ svc = NoCall
    /\ shadow = <<>>
    /\ calls = 0
    /\ failures = 0

NextCrowd ==
    \/ \E p \in Procs, e \in RaceEvents : Begin(p, e)
    \/ \E p \in Procs : GetItem(p)
    \/ \E p \in Procs : DeleteListEntries(p)
    \/ \E p \in Procs : PutDoc(p)
    \/ \E p \in Procs : PutList(p)

SpecCrowd == InitCrowd /\ [][NextCrowd]_vars

\* ----------------------------------------- requests of every shape
\* identity contexts: missing, empty, with a sub, a username, or both
Identities ==
    {Absent} \cup {[sub |-> a, username |-> b] : a \in {None, U1}, b \in {None, U2}}

\* fields named PK and SK in the input data: another user's record key
InputPKs == {None, UserScopedPK(U2, K1)}
InputSKs == {None, <<"other">>}

\* input dicts: empty, or with each field missing, empty, not a string or
\* fine, or with fields named PK and SK next to the required ones
InputDicts ==
    {Absent} \cup
    { Input(x, k, t, None, None) :
        x \in {None, U1}, k \in {None, <<>>, NotAString, K1},
        t \in {None, <<>>, NotAString, T1} } \cup
    { Input(x, K1, T1, pk, sk) : x \in {None, U1, U2}, pk \in InputPKs, sk \in InputSKs }

InputEvents == {[identity |-> i, input |-> n] : i \in Identities, n \in InputDicts}

NextInput ==
    \/ \E p \in Procs, e \in InputEvents : Begin(p, e)
    \/ \E p \in Procs : GetItem(p)
    \/ \E p \in Procs : DeleteListEntries(p)
    \/ \E p \in Procs : PutDoc(p)
    \/ \E p \in Procs : PutList(p)
    \/ \E p \in Procs : Return(p)

SpecInput == Init /\ [][NextInput]_vars

\* ------------------------------------------------------------ properties
Has(seq, x) == \E i \in 1..Len(seq) : seq[i] = x

Raised(ops) == \E i \in 1..Len(ops) : ops[i] \in {"get_item!", "delete!", "put_doc!", "put_list!"}

DocKeys(tbl) == {k \in DOMAIN tbl : IsDocKey(k)}
ListKeys(tbl) == {k \in DOMAIN tbl : IsListKey(k)}

\* the list entries that name an object key
EntriesOf(tbl, object_key) == {k \in ListKeys(tbl) : tbl[k].ObjectKey = object_key}

\* the key format as the data model states it
StatedDocKey(object_key, user_id) ==
    IF user_id = None THEN << <<"doc", "#">> \o object_key, <<"none">> >>
    ELSE << <<"user", "#">> \o user_id \o <<"#", "doc", "#">> \o object_key, <<"none">> >>

\* C1: the dual write of a create is atomic: no reachable state holds the
\* Document Record an invocation wrote without the List-Index Entry that same
\* invocation writes, nor that entry without that record.
C1_AtomicDualWrite ==
    \A p \in Procs :
        proc[p].pc \notin {"idle", "get", "delete", "put_doc"} /\ proc[p].err # "MalformedTimestamp"
        /\ proc[p].input # Absent /\ proc[p].user_id # None =>
            LET d == DocItem(proc[p].input, proc[p].user_id)
                l == ListItem(proc[p].input, proc[p].user_id)
                hasDoc == Has(proc[p].ops, "put_doc") /\ get_item(table, KeyOf(d)) = d
                hasList == Has(proc[p].ops, "put_list") /\ get_item(table, KeyOf(l)) = l
            IN  hasDoc <=> hasList

\* C2: a create that fails on a store write leaves the table exactly as it
\* was before the call (and the error reaches the caller).
C2_FailedCreateLeavesStore ==
    \A p \in Procs :
        proc[p].pc = "failed" /\ proc[p].err = "StoreError" /\ proc[p].alone =>
            table = proc[p].pre

\* the table before the call is what one create of (user_id, object_key)
\* leaves: its record, and one list entry for the object key, at the
\* record's QueuedTime
LeftByCreate(tbl, user_id, object_key) ==
    LET dk == StatedDocKey(object_key, user_id)
    IN  /\ dk \in DOMAIN tbl
        /\ EntriesOf(tbl, object_key) = {list_key(tbl[dk].QueuedTime, object_key)}

\* C3: sequential re-creation is idempotent on the index: a second create of
\* the same identity with another queued_time, with no store failure and no
\* concurrent call, leaves exactly one List-Index Entry for the object key,
\* keyed by the new queued_time, and one Document Record with the new
\* QueuedTime.
C3_RecreateIdempotentOnIndex ==
    \A p \in Procs :
        LET k == proc[p].input.ObjectKey
            u == proc[p].user_id
            t == proc[p].input.QueuedTime
            dk == StatedDocKey(k, u)
        IN  /\ proc[p].pc = "done"
            /\ proc[p].alone
            /\ ~Raised(proc[p].ops)
            /\ LeftByCreate(proc[p].pre, u, k)
            /\ proc[p].pre[dk].QueuedTime # t
            => /\ EntriesOf(table, k) = {list_key(t, k)}
               /\ table[list_key(t, k)].QueuedTime = t
               /\ dk \in DOMAIN table
               /\ table[dk].QueuedTime = t
               /\ Cardinality({d \in DocKeys(table) :
                     table[d].ObjectKey = k /\ table[d].UserId = u}) = 1

C3_Witness ==
    \E p \in Procs :
        /\ proc[p].pc = "done"
        /\ proc[p].alone
        /\ ~Raised(proc[p].ops)
        /\ LeftByCreate(proc[p].pre, proc[p].user_id, proc[p].input.ObjectKey)
        /\ proc[p].pre[StatedDocKey(proc[p].input.ObjectKey, proc[p].user_id)].QueuedTime
              # proc[p].input.QueuedTime
        /\ Has(proc[p].ops, "delete")

\* C4: in every reachable state each stored Document Record has exactly one
\* List-Index Entry for its object key (and user).
C4_ExactlyOneListEntry ==
    \A d \in DocKeys(table) :
        Cardinality({l \in EntriesOf(table, table[d].ObjectKey) :
                        table[l].UserId = table[d].UserId}) = 1

\* C5: a failure of the existence lookup never blocks creation: once
\* get_item has raised, no deletion is attempted, the handler goes on to the
\* writes, fails only if a write fails, and on success has written the
\* record and the list entry and returns the object key.
C5_LookupFailureDoesNotBlock ==
    \A p \in Procs :
        Has(proc[p].ops, "get_item!") =>
            /\ ~Has(proc[p].ops, "delete") /\ ~Has(proc[p].ops, "delete_none")
            /\ ~Has(proc[p].ops, "delete!")
            /\ proc[p].pc \in {"put_doc", "put_list", "done", "failed"}
            /\ proc[p].pc = "failed" =>
                  proc[p].ops[Len(proc[p].ops)] \in {"put_doc!", "put_list!"}
            /\ proc[p].pc = "done" =>
                  /\ proc[p].ops = <<"get_item!", "put_doc", "put_list">>
                  /\ proc[p].result.ObjectKey = proc[p].input.ObjectKey
                  /\ proc[p].alone =>
                       /\ get_item(table, StatedDocKey(proc[p].input.ObjectKey, proc[p].user_id))
                            = DocItem(proc[p].input, proc[p].user_id)
                       /\ get_item(table, list_key(proc[p].input.QueuedTime,
                                                   proc[p].input.ObjectKey))
                            = ListItem(proc[p].input, proc[p].user_id)

C5_Witness ==
    \E p \in Procs : proc[p].pc = "done" /\ Has(proc[p].ops, "get_item!")
                     /\ proc[p].pre # <<>>

\* C6: a failure of the stale-entry deletion never blocks creation: once the
\* deletion has raised, the handler goes on to the writes, fails only if a
\* write fails, and on success has written the record and the list entry and
\* returns the object key.
C6_DeletionFailureDoesNotBlock ==
    \A p \in Procs :
        Has(proc[p].ops, "delete!") =>
            /\ proc[p].pc \in {"put_doc", "put_list", "done", "failed"}
            /\ proc[p].pc = "failed" =>
                  proc[p].ops[Len(proc[p].ops)] \in {"put_doc!", "put_list!"}
            /\ proc[p].pc = "done" =>
                  /\ proc[p].ops = <<"get_item", "delete!", "put_doc", "put_list">>
                  /\ proc[p].result.ObjectKey = proc[p].input.ObjectKey
                  /\ proc[p].alone =>
                       /\ get_item(table, StatedDocKey(proc[p].input.ObjectKey, proc[p].user_id))
                            = DocItem(proc[p].input, proc[p].user_id)
                       /\ get_item(table, list_key(proc[p].input.QueuedTime,
                                                   proc[p].input.ObjectKey))
                            = ListItem(proc[p].input, proc[p].user_id)

C6_Witness ==
    \E p \in Procs : proc[p].pc = "done" /\ Has(proc[p].ops, "delete!")

\* user IDs and object keys as a caller may spell them, '#' included
SpelledUsers == Users \cup {<<"u1", "#", "doc", "#", "a.pdf">>, <<"u1", "#">>, <<"doc">>}
SpelledKeys == ObjectKeys \cup {<<"u2", "#", "doc", "#", "a.pdf">>, <<"#", "a.pdf">>}

\* C7: user isolation: for distinct users and one object key the Document
\* Record keys differ; get_document(object_key, user_a) never returns a
\* record created with another user ID, and returns None when user_a has
\* created no record for that object key.
C7_UserIsolation ==
    /\ \A ua \in SpelledUsers, ub \in SpelledUsers, k \in SpelledKeys :
          ua # ub => doc_key(k, ua) # doc_key(k, ub)
    /\ svc.op = "get" /\ svc.user_id \in Users =>
          /\ svc.result # Absent =>
                svc.result.UserId = svc.user_id /\ svc.result.ObjectKey = svc.object_key
          /\ <<svc.user_id, svc.object_key>> \notin DOMAIN shadow => svc.result = Absent

\* user_a asks for an object key only another user has a record of
C7_Witness ==
    /\ svc.op = "get" /\ svc.user_id \in Users
    /\ svc.result = Absent
    /\ \E d \in DocKeys(table) :
          table[d].ObjectKey = svc.object_key /\ table[d].UserId \in Users \ {svc.user_id}

\* C8: legacy compatibility: get_document(object_key) without a user ID looks
\* up doc#{object_key} / none: it returns a record exactly when one was
\* created for the object key with no user ID, and never a record created
\* with a user ID.
C8_LegacyGet ==
    svc.op = "get" /\ svc.user_id = None =>
        /\ svc.result # Absent <=> <<None, svc.object_key>> \in DOMAIN shadow
        /\ svc.result # Absent =>
              /\ svc.result.UserId = None
              /\ svc.result.ObjectKey = svc.object_key
              /\ svc.result.PK = <<"doc", "#">> \o svc.object_key
              /\ svc.result.SK = <<"none">>

\* the legacy record is returned while a user's record of the same object
\* key is in the table
C8_Witness ==
    /\ svc.op = "get" /\ svc.user_id = None
    /\ svc.result # Absent
    /\ \E d \in DocKeys(table) :
          table[d].ObjectKey = svc.object_key /\ table[d].UserId \in Users

\* C9: key-scheme consistency: create, update and get of one (object_key,
\* user_id) address one key, user#{user_id}#doc#{object_key} or
\* doc#{object_key}, with sort key none: every record sits at the key of its
\* identity, an update of a created identity finds its record, and get
\* returns the record as the creates and updates of that identity left it.
C9_KeySchemeConsistency ==
    /\ \A d \in DocKeys(table) : d = StatedDocKey(table[d].ObjectKey, table[d].UserId)
    /\ \A i \in DOMAIN shadow :
          /\ StatedDocKey(i[2], i[1]) \in DOMAIN table
          /\ table[StatedDocKey(i[2], i[1])].QueuedTime = shadow[i].QueuedTime
          /\ table[StatedDocKey(i[2], i[1])].ObjectStatus = shadow[i].ObjectStatus
    /\ svc.op \in {"get", "update"} /\ <<svc.user_id, svc.object_key>> \in DOMAIN shadow =>
          /\ svc.result = table[StatedDocKey(svc.object_key, svc.user_id)]
          /\ svc.result.ObjectStatus = shadow[<<svc.user_id, svc.object_key>>].ObjectStatus
          /\ svc.result.QueuedTime = shadow[<<svc.user_id, svc.object_key>>].QueuedTime

\* get returns a user's record after its create and an update of it
C9_Witness ==
    /\ svc.op = "get" /\ svc.user_id \in Users
    /\ svc.result # Absent
    /\ svc.result.ObjectStatus = <<"COMPLETED">>
    /\ Cardinality(DocKeys(table)) >= 2

\* C10: update_document changes only the Document Record at the key of the
\* document's user_id and object_key: every List-Index Entry and every other
\* Document Record stays as it is, and the record keeps its partition and
\* sort key.
C10_UpdateFrame ==
    [][svc'.op = "update" =>
          /\ DOMAIN table' = DOMAIN table
          /\ \A k \in DOMAIN table :
                /\ k # StatedDocKey(svc'.object_key, svc'.user_id) => table'[k] = table[k]
                /\ table'[k].PK = table[k].PK /\ table'[k].SK = table[k].SK
                /\ KeyOf(table'[k]) = k]_vars

\* an update has changed a record's status next to list entries and another
\* record
C10_Witness ==
    /\ svc.op = "update"
    /\ svc.result = get_item(table, StatedDocKey(svc.object_key, svc.user_id))
    /\ svc.result.ObjectStatus = <<"COMPLETED">>
    /\ Cardinality(DocKeys(table)) >= 2
    /\ ListKeys(table) # {}

\* C11: update_document on a key that is absent from the table fails with
\* DocumentNotFound and creates nothing: the table is unchanged, and no
\* Document Record appears at that key.
C11_UpdateAbsentFails ==
    [][svc'.op = "update"
         /\ StatedDocKey(svc'.object_key, svc'.user_id) \notin DOMAIN table =>
          /\ svc'.result = [error |-> "DocumentNotFound"]
          /\ table' = table
          /\ StatedDocKey(svc'.object_key, svc'.user_id) \notin DOMAIN table']_vars

\* an update of an identity with no record has failed, next to the record
\* and list entry of another identity
C11_Witness ==
    /\ svc.op = "update"
    /\ svc.result = [error |-> "DocumentNotFound"]
    /\ StatedDocKey(svc.object_key, svc.user_id) \notin DOMAIN table
    /\ DocKeys(table) # {} /\ ListKeys(table) # {}

\* the table holds nothing of the identity, or what one create of it leaves
CleanFor(tbl, user_id, object_key) ==
    \/ StatedDocKey(object_key, user_id) \notin DOMAIN tbl /\ EntriesOf(tbl, object_key) = {}
    \/ LeftByCreate(tbl, user_id, object_key)

\* C12: two creates of one identity, and no other call, run concurrently on a
\* table that is clean for the identity, and both complete:
\* whatever the interleaving of their store steps, the identity then has
\* exactly one Document Record, the one written by the call whose record
\* put came last; when no store call raised, the List-Index Entries of the
\* object key are that call's entry and at most the other call's entry.
C12_LastWriterWins ==
    \A p \in Procs, q \in Procs :
        /\ proc[p].pc = "done" /\ proc[q].pc = "done"
        /\ proc[p].among = {} /\ proc[q].among = {p}
        /\ proc[q].began = proc[p].began + 1
        /\ proc[p].user_id = proc[q].user_id
        /\ proc[p].input.ObjectKey = proc[q].input.ObjectKey
        /\ CleanFor(proc[p].pre, proc[p].user_id, proc[p].input.ObjectKey)
        => LET k == proc[p].input.ObjectKey
               u == proc[p].user_id
               w == IF proc[p].last THEN p ELSE q
               l == [r \in {p, q} |-> KeyOf(ListItem(proc[r].input, proc[r].user_id))]
           IN  /\ proc[p].last # proc[q].last
               /\ get_item(table, StatedDocKey(k, u)) = DocItem(proc[w].input, u)
               /\ Cardinality({d \in DocKeys(table) :
                     table[d].ObjectKey = k /\ table[d].UserId = u}) = 1
               /\ ~Raised(proc[p].ops) /\ ~Raised(proc[q].ops) =>
                     /\ l[w] \in EntriesOf(table, k)
                     /\ EntriesOf(table, k) \subseteq {l[p], l[q]}

\* both calls found the old record, and the call that put its record first
\* put its list entry last: its entry stays next to the winner's
C12_Witness ==
    \E p \in Procs, q \in Procs :
        /\ proc[p].pc = "done" /\ proc[q].pc = "done"
        /\ proc[p].among = {} /\ proc[q].among = {p}
        /\ proc[q].began = proc[p].began + 1
        /\ LeftByCreate(proc[p].pre, proc[p].user_id, proc[p].input.ObjectKey)
        /\ proc[p].ops = <<"get_item", "delete", "put_doc", "put_list">>
        /\ proc[q].ops = <<"get_item", "delete_none", "put_doc", "put_list">>
        /\ proc[q].last
        /\ Cardinality(EntriesOf(table, proc[p].input.ObjectKey)) = 2

\* p has just made its call of delete_list_entries_robust
Deleting(p) ==
    /\ Len(proc'[p].ops) = Len(proc[p].ops) + 1
    /\ proc'[p].ops[Len(proc'[p].ops)] \in {"delete", "delete_none", "delete!"}

\* C13: on re-create the stale-entry deletion runs only when the lookup found
\* a Document Record, and before the new writes; it removes at most the
\* List-Index Entry whose key is computed from the QueuedTime stored on that
\* record and the object key, never one computed from the new request's
\* QueuedTime; and the key a deletion computes from a record equals the key
\* under which the create that wrote the record wrote its entry.
C13_DeletionFromStoredTime ==
    [][\A p \in Procs :
          /\ Deleting(p) =>
                /\ proc[p].existing_doc # Absent
                /\ proc[p].ops = <<"get_item">>
                /\ \/ table' = table
                   \/ table' = delete_item(table,
                                  list_key(proc[p].existing_doc.QueuedTime,
                                           proc[p].input.ObjectKey))
                /\ proc[p].existing_doc.QueuedTime # proc[p].input.QueuedTime =>
                      \A k \in DOMAIN table :
                          k = list_key(proc[p].input.QueuedTime, proc[p].input.ObjectKey)
                              => k \in DOMAIN table' /\ table'[k] = table[k]
          /\ proc'[p].pc = "done" =>
                KeyOf(ListItem(proc'[p].input, proc'[p].user_id))
                  = robust_list_key(proc'[p].input.ObjectKey,
                                    DocItem(proc'[p].input, proc'[p].user_id))]_vars

\* the old entry is gone and an entry at the new request's QueuedTime, left
\* by an earlier create, is still there
C13_Witness ==
    \E p \in Procs :
        /\ proc[p].pc = "put_doc"
        /\ proc[p].ops = <<"get_item", "delete">>
        /\ proc[p].existing_doc.QueuedTime # proc[p].input.QueuedTime
        /\ list_key(proc[p].existing_doc.QueuedTime, proc[p].input.ObjectKey)
              \notin DOMAIN table
        /\ list_key(proc[p].input.QueuedTime, proc[p].input.ObjectKey) \in DOMAIN table

\* C14: when the stale-entry deletion finds no List-Index Entry at the
\* recomputed key it reports false, not an error: the table is left as it
\* is, the handler goes on to the writes, fails only if a write fails, and
\* on success has written the record and the list entry and returns the
\* object key.
C14_NothingToDeleteDoesNotBlock ==
    \A p \in Procs :
        Has(proc[p].ops, "delete_none") =>
            /\ proc[p].err \in {"", "StoreError"}
            /\ proc[p].pc \in {"put_doc", "put_list", "done", "failed"}
            /\ proc[p].pc = "put_doc" /\ proc[p].alone => table = proc[p].pre
            /\ proc[p].pc = "failed" =>
                  proc[p].ops[Len(proc[p].ops)] \in {"put_doc!", "put_list!"}
            /\ proc[p].pc = "done" =>
                  /\ proc[p].ops = <<"get_item", "delete_none", "put_doc", "put_list">>
                  /\ proc[p].result.ObjectKey = proc[p].input.ObjectKey
                  /\ proc[p].alone =>
                       /\ get_item(table, StatedDocKey(proc[p].input.ObjectKey, proc[p].user_id))
                            = DocItem(proc[p].input, proc[p].user_id)
                       /\ get_item(table, list_key(proc[p].input.QueuedTime,
                                                   proc[p].input.ObjectKey))
                            = ListItem(proc[p].input, proc[p].user_id)

\* the record found had no list entry at the recomputed key, and the create
\* has succeeded
C14_Witness ==
    \E p \in Procs :
        /\ proc[p].pc = "done" /\ Has(proc[p].ops, "delete_none")
        /\ proc[p].existing_doc # Absent
        /\ robust_list_key(proc[p].input.ObjectKey, proc[p].existing_doc)
              \notin DOMAIN proc[p].pre

\* C15: a successful create has written the Document Record under
\* user#{user_id}#doc#{ObjectKey} / none and the List-Index Entry under
\* list#{date}#s#{shard} / ts#{QueuedTime}#id#{ObjectKey}, with (date, shard)
\* = calculate_shard(QueuedTime of this request), and returns the ObjectKey
\* and the UserId it used for these keys.
C15_CreateWritesStatedKeys ==
    \A p \in Procs :
        proc[p].pc = "done" /\ proc[p].alone =>
            LET k == proc[p].input.ObjectKey
                t == proc[p].input.QueuedTime
                u == proc[p].user_id
                pk == <<"user", "#">> \o u \o <<"#", "doc", "#">> \o k
                lpk == <<"list", "#", calculate_shard(t)[1], "#", "s", "#">>
                          \o calculate_shard(t)[2]
                lsk == <<"ts", "#">> \o t \o <<"#", "id", "#">> \o k
            IN  /\ <<pk, <<"none">> >> \in DOMAIN table
                /\ table[<<pk, <<"none">> >>] = DocItem(proc[p].input, u)
                /\ table[<<pk, <<"none">> >>].PK = pk
                /\ table[<<pk, <<"none">> >>].SK = <<"none">>
                /\ table[<<pk, <<"none">> >>].QueuedTime = t
                /\ <<lpk, lsk>> \in DOMAIN table
                /\ table[<<lpk, lsk>>] = ListItem(proc[p].input, u)
                /\ table[<<lpk, lsk>>].PK = lpk /\ table[<<lpk, lsk>>].SK = lsk
                /\ proc[p].ops[Len(proc[p].ops) - 1] = "put_doc"
                /\ proc[p].ops[Len(proc[p].ops)] = "put_list"
                /\ proc[p].result = [ObjectKey |-> k, UserId |-> u]

\* a create has succeeded for a user the input names, over an older record
\* at another QueuedTime
C15_Witness ==
    \E p \in Procs :
        /\ proc[p].pc = "done" /\ proc[p].alone
        /\ proc[p].input.UserId = proc[p].user_id
        /\ proc[p].existing_doc # Absent
        /\ proc[p].existing_doc.QueuedTime # proc[p].input.QueuedTime

\* the request names no user: no UserId in the input, no sub and no username
NoUserId(event) ==
    /\ event.input = Absent \/ event.input.UserId \in {None, <<>>}
    /\ \/ event.identity = Absent
       \/ event.identity.sub \in {None, <<>>} /\ event.identity.username \in {None, <<>>}

\* the field is missing or not a non-empty string
BadObjectKey(event) ==
    event.input = Absent \/ event.input.ObjectKey \in {None, <<>>, NotAString}
BadQueuedTime(event) ==
    event.input = Absent \/ event.input.QueuedTime \in {None, <<>>, NotAString}

ValueErrors ==
    {"User not authenticated - missing user ID", "Input data is required",
     "ObjectKey must be a non-empty string", "QueuedTime must be a non-empty string"}

\* C16: the create handler rejects an invalid request with a ValueError
\* before any store access: when no user ID can be determined, or ObjectKey
\* or QueuedTime is missing or not a non-empty string, it raises and has made
\* no store read, deletion or write.
C16_InvalidRequestRejected ==
    /\ svc.op = "handler"
         /\ (NoUserId(svc.event) \/ BadObjectKey(svc.event) \/ BadQueuedTime(svc.event))
         => /\ proc[svc.slot].pc = "failed"
            /\ proc[svc.slot].err \in ValueErrors
            /\ proc[svc.slot].ops = <<>>
            /\ table = proc[svc.slot].pre
    /\ \A p \in Procs : proc[p].err \in ValueErrors =>
            proc[p].pc = "failed" /\ proc[p].ops = <<>>

\* a request whose ObjectKey is not a string is rejected next to a table
\* that holds records
C16_Witness ==
    /\ svc.op = "handler"
    /\ ~NoUserId(svc.event)
    /\ svc.event.input # Absent
    /\ svc.event.input.ObjectKey = NotAString
    /\ proc[svc.slot].pc = "failed"
    /\ table # <<>>

\* C17 as stated: whenever the input data is empty the handler fails with
\* the ValueError 'Input data is required' and performs no store operation.
C17_EmptyInputAsStated ==
    svc.op = "handler" /\ svc.event.input = Absent =>
        /\ proc[svc.slot].pc = "failed"
        /\ proc[svc.slot].err = "Input data is required"
        /\ proc[svc.slot].ops = <<>>

\* C17: when the input data is empty the handler performs no store operation
\* and fails with a ValueError: 'Input data is required' when the identity
\* carries a sub or a username, 'User not authenticated - missing user ID'
\* when it carries neither (the user ID is looked for first).
C17_EmptyInputRejected ==
    svc.op = "handler" /\ svc.event.input = Absent =>
        /\ proc[svc.slot].pc = "failed"
        /\ proc[svc.slot].err = IF NoUserId(svc.event)
                                 THEN "User not authenticated - missing user ID"
                                 ELSE "Input data is required"
        /\ proc[svc.slot].ops = <<>>
        /\ table = proc[svc.slot].pre

\* an empty input from a signed-in user is rejected next to a table that
\* holds records
C17_Witness ==
    /\ svc.op = "handler" /\ svc.event.input = Absent
    /\ ~NoUserId(svc.event)
    /\ proc[svc.slot].err = "Input data is required"
    /\ table # <<>>

\* the field of an identity context holds a non-empty value
Present(identity, field) ==
    identity # Absent /\ identity[field] \notin {None, <<>>}

NotAuthenticated == <<"~ValueError", "User not authenticated - missing user ID">>

C19_UploadExtractPrefersUsername ==
    svc.op = "upload_extract_user_id" =>
        LET i == svc.event.identity
        IN  /\ Present(i, "username") => svc.result = i.username
            /\ ~Present(i, "username") /\ Present(i, "sub") => svc.result = i.sub
            /\ ~Present(i, "sub") /\ ~Present(i, "username") => svc.result = NotAuthenticated
            /\ svc.result # NotAuthenticated => Present(i, "sub") \/ Present(i, "username")

\* sub and username are both there and differ: username is returned
C19_Witness ==
    /\ svc.op = "upload_extract_user_id"
    /\ Present(svc.event.identity, "sub") /\ Present(svc.event.identity, "username")
    /\ svc.event.identity.sub # svc.event.identity.username
    /\ svc.result = svc.event.identity.username

\* a file name with every space replaced by an underscore
Underscored(name, out) ==
    /\ Len(out) = Len(name)
    /\ \A i \in 1..Len(name) : out[i] = (IF name[i] = " " THEN "_" ELSE name[i])

\* C20: every successful upload request yields an object key in the caller's
\* own directory: users/{user_id}/{fileName with spaces replaced by
\* underscores}, or users/{user_id}/{prefix}/{that file name} when a prefix
\* is given, user_id being the caller's extracted ID; the returned objectKey
\* is the key the presigned POST was generated for, and the returned userId
\* is that user_id.
C20_UploadKeyInOwnDirectory ==
    svc.op = "upload" /\ "error" \notin DOMAIN svc.result =>
        LET i == svc.event.identity
            u == IF Present(i, "username") THEN i.username ELSE i.sub
            x == svc.event.arguments.prefix
            dir == <<"users", "/">> \o u \o <<"/">>
            head == IF x \in {None, <<>>} THEN dir ELSE dir \o x \o <<"/">>
            key == svc.result.objectKey
        IN  /\ Present(i, "username") \/ Present(i, "sub")
            /\ Len(key) > Len(head)
            /\ SubSeq(key, 1, Len(head)) = head
            /\ Underscored(svc.event.arguments.fileName,
                           SubSeq(key, Len(head) + 1, Len(key)))
            /\ svc.result.presigned.Key = key
            /\ svc.result.userId = u

\* a file name with spaces, uploaded under a prefix by a caller whose
\* identity carries a sub and another username
C20_Witness ==
    /\ svc.op = "upload" /\ "error" \notin DOMAIN svc.result
    /\ svc.event.arguments.prefix \notin {None, <<>>}
    /\ \E n \in 1..Len(svc.event.arguments.fileName) : svc.event.arguments.fileName[n] = " "
    /\ Present(svc.event.identity, "sub") /\ Present(svc.event.identity, "username")
    /\ svc.result.userId = svc.event.identity.username

\* the positions of the '/' tokens of a key
Slashes(key) == {i \in 1..Len(key) : key[i] = "/"}

PathError(name) == <<"~ValueError", name>>

\* the user segment of users/<user_id>/<rest>: what lies between the first
\* two '/'
UserSegment(key) ==
    LET second == CHOOSE j \in Slashes(key) \ {2} :
                     \A i \in Slashes(key) \ {2} : j <= i
    IN  SubSeq(key, 3, second - 1)

\* C21: extract_user_id_from_path returns the second path segment of an
\* object key users/<user_id>/<rest>, however deeply <rest> is nested, and
\* raises ValueError when the key does not start with 'users/' (invalid path
\* format), has fewer than three '/'-separated parts (invalid path
\* structure), or has an empty user segment.
C21_UserIdFromPath ==
    svc.op = "extract_user_id_from_path" =>
        LET k == svc.object_key
            users == Len(k) >= 2 /\ SubSeq(k, 1, 2) = <<"users", "/">>
        IN  /\ ~users => svc.result = PathError("Invalid path format")
            /\ users /\ Cardinality(Slashes(k)) < 2 =>
                  svc.result = PathError("Invalid path structure")
            /\ users /\ Cardinality(Slashes(k)) >= 2 /\ k[3] = "/" =>
                  svc.result = PathError("User ID is empty in path")
            /\ users /\ Cardinality(Slashes(k)) >= 2 /\ k[3] # "/" =>
                  svc.result = UserSegment(k)

\* the user ID of a key nested three directories deep
C21_Witness ==
    /\ svc.op = "extract_user_id_from_path"
    /\ Cardinality(Slashes(svc.object_key)) >= 4
    /\ svc.result = <<"u2">>

\* the key is not of the form users/<user_id>/<rest> with a user segment
InvalidPath(key) ==
    \/ Len(key) < 2
    \/ SubSeq(key, 1, 2) # <<"users", "/">>
    \/ Cardinality(Slashes(key)) < 2
    \/ key[3] = "/"

\* the event lacks a bucket name or an object key
MissingS3Field(event) == event.bucket \in {None, <<>>} \/ event.key \in {None, <<>>}

\* C22: the queue sender sends exactly one queue message per successfully
\* handled S3 event, with UserId the user ID extracted from the object key
\* path and ObjectKey the event's object key; it sends no message when the
\* bucket name or object key is missing or the path is invalid; a failure
\* of the send is raised to the caller after the one attempt.
C22_QueueSenderOneMessage ==
    svc.op = "queue_sender" =>
        LET e == svc.event
            r == svc.result
        IN  /\ r.error = "" =>
                  /\ Len(r.sent) = 1 /\ r.attempts = 1
                  /\ r.sent[1].UserId = UserSegment(e.key)
                  /\ r.sent[1].ObjectKey = e.key
            /\ MissingS3Field(e) \/ InvalidPath(e.key) =>
                  r.sent = <<>> /\ r.attempts = 0 /\ r.error # ""
            /\ ~MissingS3Field(e) /\ ~InvalidPath(e.key) /\ ~svc.send_ok =>
                  r.sent = <<>> /\ r.attempts = 1 /\ r.error = "ClientError"
            /\ ~MissingS3Field(e) /\ ~InvalidPath(e.key) /\ svc.send_ok => r.error = ""

\* one message for a nested key, carrying the user of its second segment
C22_Witness ==
    /\ svc.op = "queue_sender"
    /\ svc.result.error = ""
    /\ Len(svc.result.sent) = 1
    /\ Cardinality(Slashes(svc.event.key)) >= 4
    /\ svc.result.sent[1].UserId = <<"u2">>

\* C23: the Document Record the create handler writes always has partition
\* key user#{user_id}#doc#{ObjectKey} and sort key none, whatever fields the
\* input data carries.
C23_InputCannotChangeKey ==
    \A p \in Procs :
        proc[p].pc \in {"put_list", "done"} /\ proc[p].ops[Len(proc[p].ops)] = "put_doc" =>
            LET pk == <<"user", "#">> \o proc[p].user_id \o <<"#", "doc", "#">>
                         \o proc[p].input.ObjectKey
            IN  /\ <<pk, <<"none">> >> \in DOMAIN table
                /\ table[<<pk, <<"none">> >>].PK = pk
                /\ table[<<pk, <<"none">> >>].SK = <<"none">>
                /\ table[<<pk, <<"none">> >>].QueuedTime = proc[p].input.QueuedTime
                /\ DOMAIN table \ DOMAIN proc[p].pre \subseteq {<<pk, <<"none">> >>}

\* C24: a create request that carries an authenticated identity is scoped to
\* that identity: the user ID the handler uses for the Document Record key
\* and the UserId attributes is the ID extracted from the identity context,
\* whatever the input's UserId field says.
C24_ScopedToIdentity ==
    svc.op = "handler"
      /\ (Present(svc.event.identity, "sub") \/ Present(svc.event.identity, "username"))
      /\ proc[svc.slot].pc # "failed" =>
        LET i == svc.event.identity
            id == IF Present(i, "sub") THEN i.sub ELSE i.username
        IN  /\ proc[svc.slot].user_id = id
            /\ DocItem(proc[svc.slot].input, proc[svc.slot].user_id).UserId = id
            /\ ListItem(proc[svc.slot].input, proc[svc.slot].user_id).UserId = id

\* C25: the Document Record key is injective over identities: two different
\* (object_key, user_id) pairs, taken verbatim and possibly containing '#' or
\* '#doc#', never have the same partition key, and a user-scoped key never
\* equals a legacy key.
C25_KeyInjective ==
    svc.op = "doc_key" =>
        /\ svc.a # svc.b => svc.key_a[1] # svc.key_b[1]
        /\ svc.a[1] # None /\ svc.b[1] = None => svc.key_a[1] # svc.key_b[1]

\* C26: round trip between upload and queueing: for every user ID and file
\* name the upload resolver accepts, with or without a prefix,
\* extract_user_id_from_path of the object key the upload resolver produced
\* is the user ID the upload resolver used.
C26_UploadQueueRoundTrip ==
    svc.op = "round_trip" /\ "error" \notin DOMAIN svc.upload =>
        svc.result = svc.upload.userId

\* C27: the upload resolver and the create resolver derive the same user ID
\* from the same identity context, also when it carries a username and a
\* sub with different values: the user ID of the upload path users/{user_id}/
\* is the user ID of the Document Record key user#{user_id}#doc#...
C27_SameUserIdBothResolvers ==
    svc.op = "both_extract" =>
        /\ svc.upload = svc.create
        /\ ~IsError(svc.upload) =>
              upload_object_key(svc.upload, None, K1)[3] = UserScopedPK(svc.create, K1)[3]


\* every invocation that was started has completed
AllCompleted ==
    /\ \A p \in Procs : proc[p].pc \in {"idle", "done"}
    /\ \E p \in Procs : proc[p].pc = "done"

\* C28: when concurrent creates of one identity have all completed and no
\* store call failed, whatever the interleaving of their lookup, deletion
\* and write steps, the table holds the List-Index Entry of the surviving
\* Document Record: the entry at the record's QueuedTime and object key.
C28_NoDocumentLostByRace ==
    AllCompleted /\ failures = 0 =>
        \A e \in RaceEvents :
            LET k == e.input.ObjectKey
                dk == StatedDocKey(k, HandlerUserId(e))
            IN  /\ dk \in DOMAIN table
                /\ list_key(table[dk].QueuedTime, k) \in DOMAIN table
                /\ table[list_key(table[dk].QueuedTime, k)].QueuedTime = table[dk].QueuedTime
                /\ table[list_key(table[dk].QueuedTime, k)].ObjectKey = k

\* three creates were in flight together, the race left a second entry
\* and the call whose record survives put its entry before another call's
C28_Witness ==
    /\ AllCompleted
    /\ \A p \in Procs : proc[p].pc = "done"
    /\ \E p \in Procs : proc[p].among = Procs \ {p}
    /\ \E p \in Procs : proc[p].last /\ ~proc[p].alone
    /\ Cardinality(EntriesOf(table, K1)) = 2


\* the List-Index Entries of one identity
EntriesOfIdentity(tbl, user_id, object_key) ==
    {k \in EntriesOf(tbl, object_key) : tbl[k].UserId = user_id}

\* C29: a create that runs alone and without a store failure, for an
\* identity whose record came with an extra List-Index Entry left by an
\* earlier create, leaves exactly one List-Index Entry for the identity.
C29_StaleEntriesCleanedUp ==
    \A p \in Procs :
        /\ proc[p].pc = "done"
        /\ proc[p].alone
        /\ ~Raised(proc[p].ops)
        /\ StatedDocKey(proc[p].input.ObjectKey, proc[p].user_id) \in DOMAIN proc[p].pre
        /\ Cardinality(EntriesOfIdentity(proc[p].pre, proc[p].user_id,
                                         proc[p].input.ObjectKey)) > 1
        => Cardinality(EntriesOfIdentity(table, proc[p].user_id,
                                         proc[p].input.ObjectKey)) = 1


\* C30: a completed create or re-create for (user_a, object_key) leaves the
\* Document Record and every List-Index Entry of (user_b, object_key), for
\* any other user user_b, as they were before it, also when both were queued
\* with the same queued_time.
C30_OtherIdentityUntouched ==
    \A p \in Procs, user_b \in Users :
        /\ proc[p].pc = "done"
        /\ proc[p].alone
        /\ user_b # proc[p].user_id
        => LET k == proc[p].input.ObjectKey
               dk == StatedDocKey(k, user_b)
           IN  /\ dk \in DOMAIN proc[p].pre =>
                     dk \in DOMAIN table /\ table[dk] = proc[p].pre[dk]
               /\ \A e \in EntriesOfIdentity(proc[p].pre, user_b, k) :
                     e \in DOMAIN table /\ table[e] = proc[p].pre[e]

====
